---- MODULE Spec2Model ----
(***************************************************************************)
(* Eligibility adjudication core of SARAL: the rule engine                 *)
(* (app/engine/rules.py), the scheme registry (app/engine/scheme_config.py)*)
(* the near-miss analyzers (app/engine/near_miss.py, app/routes/cases.py), *)
(* the risk scorer and its lazily loaded classifier (app/ai), the          *)
(* create_case handler with arm assignment and blinding                    *)
(* (app/routes/cases.py), the document checklist (app/engine/docs.py), the *)
(* boundaries that expose a stored case (app/routes/cases.py,              *)
(* app/routes/export.py, app/routes/dashboard.py) and the operator desk    *)
(* (dashboard_disposition, update_status).                                 *)
(***************************************************************************)
EXTENDS Integers, Sequences, FiniteSets, TLC

\* one evaluation of the pure adjudication functions
VARIABLES scheme_code, profile, risk_score, pc, rule_out, near_engine, near_res,
          flag_reason

\* the cases table, the events table, the create_case call in flight or last
\* completed, the arm assignments made so far, the last output of a boundary
VARIABLES cases, events, call, calls, view

\* the last request made at the operator desk (a disposition or a status
\* update) and its answer
VARIABLES desk

\* whether the cases table of the database in use carries the unique
\* (citizen_hash, scheme_code) constraint whose IntegrityError create_case
\* handles; app/models.py declares none
VARIABLES unique_pair

\* the classifier handles of the process and the threads using them
VARIABLES handles, threads

pipeVars == <<scheme_code, profile, risk_score, pc, rule_out, near_engine, near_res,
              flag_reason>>

caseVars == <<cases, events, call, calls, view, desk, unique_pair>>

aiVars == <<handles, threads>>

vars == <<pipeVars, caseVars, aiVars>>

(***************************************************************************)
(* Python values.  A value is None, an int, or a str; a str that int()     *)
(* parses is kept apart from one it rejects.                               *)
(***************************************************************************)
None == [k |-> "none", n |-> 0, s |-> ""]

I(n) == [k |-> "int", n |-> n, s |-> ""]

S(s) == [k |-> "str", n |-> 0, s |-> s]

\* bool(v): None, 0 and "" are falsy
Truthy(v) ==
    CASE v.k = "none" -> FALSE
      [] v.k = "int"  -> v.n # 0
      [] OTHER        -> v.s # ""

\* `v or 0`
OrZero(v) == IF Truthy(v) THEN v ELSE I(0)

\* int(v) succeeds on an int; a non-numeric str raises ValueError, None TypeError
IntOk(v) == v.k = "int"

IntOf(v) == v.n

\* str(v)
StrOf(v) ==
    CASE v.k = "none" -> "None"
      [] v.k = "int"  -> ToString(v.n)
      [] OTHER        -> v.s

\* v == 1
EqOne(v) == v.k = "int" /\ v.n = 1

(***************************************************************************)
(* Scheme registry                                                         *)
(***************************************************************************)
PMAY_MIN_AGE == 18

UJJ_MIN_AGE == 18

PMAY_EWS_MAX == 300000

PMAY_LIG_MAX == 600000

UJJ_BPL_MAX == 250000

SCHEME_CONFIG ==
    [c \in {"PMAY", "UJJ"} |->
        IF c = "PMAY"
        THEN [criteria |->
                [min_age |-> PMAY_MIN_AGE,
                 gender |-> <<"F", "M", "O">>,
                 must_be_rural |-> FALSE,
                 requires_marginalized |-> FALSE,
                 income_bands |->
                    << [name |-> "EWS (Economically Weaker)", max |-> PMAY_EWS_MAX],
                       [name |-> "LIG (Low Income Group)", max |-> PMAY_LIG_MAX] >>],
              alternatives |-> <<"Rent Agreement Support", "Shelter Homes">>]
        ELSE [criteria |->
                [min_age |-> UJJ_MIN_AGE,
                 gender |-> <<"F">>,
                 must_be_rural |-> FALSE,
                 requires_marginalized |-> FALSE,
                 income_bands |->
                    << [name |-> "BPL / Ration Card Holder", max |-> UJJ_BPL_MAX] >>],
              alternatives |-> <<"General LPG Connection", "State Subsidy">>]]

\* str.upper() on the scheme-code spellings the model draws
Upper(s) ==
    CASE s \in {"pmay", "Pmay", "PMAY"} -> "PMAY"
      [] s \in {"ujj", "Ujj", "UJJ"}    -> "UJJ"
      [] s = "bad"                      -> "BAD"
      [] OTHER                          -> s

\* get_scheme_config: [found, cfgkey, raised]
get_scheme_config(code) ==
    IF ~Truthy(code)
    THEN [raised |-> FALSE, found |-> FALSE, key |-> ""]
    ELSE IF code.k # "str"
         THEN [raised |-> TRUE, found |-> FALSE, key |-> ""]   \* int has no .upper()
         ELSE [raised |-> FALSE,
               found |-> Upper(code.s) \in DOMAIN SCHEME_CONFIG,
               key |-> Upper(code.s)]

(***************************************************************************)
(* Rule engine                                                             *)
(***************************************************************************)
RuleOut(rr, reasons, alts, tags) ==
    [kind |-> "RuleOut", rule_result |-> rr, reasons |-> reasons,
     alternatives |-> alts, tags |-> tags, exc |-> ""]

Raised(exc) ==
    [kind |-> "raise", rule_result |-> "", reasons |-> <<>>,
     alternatives |-> <<>>, tags |-> <<>>, exc |-> exc]

NoOut ==
    [kind |-> "none", rule_result |-> "", reasons |-> <<>>,
     alternatives |-> <<>>, tags |-> <<>>, exc |-> ""]

\* mutant: any other period is taken as annual
_annualize_income_lenient(income, period) ==
    IF period = "monthly" THEN [ok |-> TRUE, v |-> income * 12]
    ELSE [ok |-> TRUE, v |-> income]

\* mutant: a monthly amount is not multiplied
_annualize_income_unscaled(income, period) ==
    IF period = "annual" \/ period = "monthly" THEN [ok |-> TRUE, v |-> income]
    ELSE [ok |-> FALSE, v |-> 0]

\* _annualize_income: [ok, v]
_annualize_income(income, period) ==
    IF period = "annual" THEN [ok |-> TRUE, v |-> income]
    ELSE IF period = "monthly" THEN [ok |-> TRUE, v |-> income * 12]
    ELSE [ok |-> FALSE, v |-> 0]

\* mutant: the loop does not stop at the first match, the last matching band wins
RECURSIVE MatchBand_Last(_, _, _)
MatchBand_Last(bands, annual_income, i) ==
    IF i > Len(bands) THEN ""
    ELSE LET rest == MatchBand_Last(bands, annual_income, i + 1)
         IN  IF rest # "" THEN rest
             ELSE IF annual_income <= bands[i].max THEN bands[i].name ELSE ""

\* the band loop: name of the first band with annual_income <= max, "" if none
RECURSIVE MatchBand(_, _, _)
MatchBand(bands, annual_income, i) ==
    IF i > Len(bands) THEN ""
    ELSE IF annual_income <= bands[i].max THEN bands[i].name
    ELSE MatchBand(bands, annual_income, i + 1)

SeqMember(x, seq) == \E i \in 1..Len(seq) : seq[i] = x

\* mutant: the age guard rejects the minimum age itself
DeterministicChecks_AgeStrict(scheme_str, cfg, age, gender, rural, caste_flag, annual_income) ==
    LET criteria == cfg.criteria
        bands == criteria.income_bands
        matched_band == MatchBand(bands, annual_income, 1)
        r1 == IF age <= criteria.min_age
              THEN <<"Age must be " \o ToString(criteria.min_age) \o "+">> ELSE <<>>
        r2 == IF Len(criteria.gender) > 0
                 /\ ~(gender.k = "str" /\ SeqMember(gender.s, criteria.gender))
              THEN <<"Applicant category not eligible">> ELSE <<>>
        r3 == IF criteria.must_be_rural /\ rural # 1 THEN <<"Must be Rural">> ELSE <<>>
        r4 == IF Len(bands) > 0 /\ matched_band = ""
              THEN <<"Income exceeds all eligible bands">> ELSE <<>>
        tags == IF matched_band # ""
                THEN <<scheme_str \o "_BAND:" \o matched_band>> ELSE <<>>
        r5 == IF criteria.requires_marginalized /\ caste_flag # 1
              THEN <<"Must belong to eligible social category">> ELSE <<>>
        reasons == r1 \o r2 \o r3 \o r4 \o r5
    IN  IF reasons = <<>>
        THEN RuleOut("ELIGIBLE_BY_RULE", <<>>, <<>>, tags)
        ELSE RuleOut("INELIGIBLE_BY_RULE", reasons, cfg.alternatives, tags)

\* mutant: fail-fast, only the first failing guard is reported
DeterministicChecks_FailFast(scheme_str, cfg, age, gender, rural, caste_flag, annual_income) ==
    LET criteria == cfg.criteria
        bands == criteria.income_bands
        matched_band == MatchBand(bands, annual_income, 1)
        r1 == IF criteria.min_age # 0 /\ age < criteria.min_age
              THEN <<"Age must be " \o ToString(criteria.min_age) \o "+">> ELSE <<>>
        r2 == IF Len(criteria.gender) > 0
                 /\ ~(gender.k = "str" /\ SeqMember(gender.s, criteria.gender))
              THEN <<"Applicant category not eligible">> ELSE <<>>
        r3 == IF criteria.must_be_rural /\ rural # 1 THEN <<"Must be Rural">> ELSE <<>>
        r4 == IF Len(bands) > 0 /\ matched_band = ""
              THEN <<"Income exceeds all eligible bands">> ELSE <<>>
        tags == IF matched_band # ""
                THEN <<scheme_str \o "_BAND:" \o matched_band>> ELSE <<>>
        r5 == IF criteria.requires_marginalized /\ caste_flag # 1
              THEN <<"Must belong to eligible social category">> ELSE <<>>
        reasons == r1 \o r2 \o r3 \o r4 \o r5
    IN  IF reasons = <<>>
        THEN RuleOut("ELIGIBLE_BY_RULE", <<>>, <<>>, tags)
        ELSE RuleOut("INELIGIBLE_BY_RULE", <<Head(reasons)>>, cfg.alternatives, tags)

\* the deterministic checks, lines 70-107
DeterministicChecks(scheme_str, cfg, age, gender, rural, caste_flag, annual_income) ==
    LET criteria == cfg.criteria
        alts     == cfg.alternatives
        min_age  == criteria.min_age
        r1 == IF min_age # 0 /\ age < min_age
              THEN <<"Age must be " \o ToString(min_age) \o "+">> ELSE <<>>
        allowed_genders == criteria.gender
        r2 == IF Len(allowed_genders) > 0
                 /\ ~(gender.k = "str" /\ SeqMember(gender.s, allowed_genders))
              THEN <<"Applicant category not eligible">> ELSE <<>>
        r3 == IF criteria.must_be_rural /\ rural # 1
              THEN <<"Must be Rural">> ELSE <<>>
        bands == criteria.income_bands
        matched_band == MatchBand(bands, annual_income, 1)
        r4 == IF Len(bands) > 0 /\ matched_band = ""
              THEN <<"Income exceeds all eligible bands">> ELSE <<>>
        tags == IF ~(Len(bands) > 0 /\ matched_band = "") /\ matched_band # ""
                THEN <<scheme_str \o "_BAND:" \o matched_band>> ELSE <<>>
        r5 == IF criteria.requires_marginalized /\ caste_flag # 1
              THEN <<"Must belong to eligible social category">> ELSE <<>>
        reasons == r1 \o r2 \o r3 \o r4 \o r5
    IN  IF reasons = <<>>
        THEN RuleOut("ELIGIBLE_BY_RULE", <<>>, <<>>, tags)
        ELSE RuleOut("INELIGIBLE_BY_RULE", reasons, alts, tags)

assistive_decision(code, prof) ==
    LET look == get_scheme_config(code)
    IN  IF look.raised THEN Raised("AttributeError")
        ELSE IF ~look.found
        THEN RuleOut("UNKNOWN_NEEDS_DOCS", <<"Invalid scheme code">>, <<>>, <<>>)
        ELSE
        LET cfg   == SCHEME_CONFIG[look.key]
            alts  == cfg.alternatives
            age_v == OrZero(prof.age)
            rur_v == OrZero(prof.rural)
            cas_v == OrZero(prof.caste_marginalized)
        IN  IF ~IntOk(age_v) \/ ~IntOk(rur_v) \/ ~IntOk(cas_v)
            THEN Raised("ValueError")
            ELSE IF prof.income.k = "none" \/ prof.income_period.k = "none"
            THEN RuleOut("UNKNOWN_NEEDS_DOCS",
                         <<"Income or income period missing">>, alts, <<>>)
            ELSE IF ~IntOk(prof.income)
            THEN RuleOut("UNKNOWN_NEEDS_DOCS", <<"Invalid income format">>, alts, <<>>)
            ELSE
            LET ann == _annualize_income(IntOf(prof.income), StrOf(prof.income_period))
            IN  IF ~ann.ok
                THEN RuleOut("UNKNOWN_NEEDS_DOCS", <<"Invalid income format">>,
                             alts, <<>>)
                ELSE DeterministicChecks(code.s, cfg, IntOf(age_v), prof.gender,
                                         IntOf(rur_v), IntOf(cas_v), ann.v)

(***************************************************************************)
(* Text.  A text is a sequence of pieces; "|".join puts a "|" piece        *)
(* between parts.  A text contains a marker when one piece is the marker.  *)
(***************************************************************************)
RECURSIVE Join(_)
Join(parts) ==
    IF Len(parts) = 0 THEN <<>>
    ELSE IF Len(parts) = 1 THEN parts[1]
    ELSE parts[1] \o <<"|">> \o Join(Tail(parts))

Contains(text, piece) == \E i \in 1..Len(text) : text[i] = piece

Pad3(n) ==
    IF n < 10 THEN "00" \o ToString(n)
    ELSE IF n < 100 THEN "0" \o ToString(n) ELSE ToString(n)

\* f"{n:,}"
RECURSIVE Commas(_)
Commas(n) ==
    IF n < 1000 THEN ToString(n)
    ELSE Commas(n \div 1000) \o "," \o Pad3(n % 1000)

\* str() of a float given in thousandths, 0 <= r <= 1000
FloatStr(r) ==
    IF r = 1000 THEN "1.0"
    ELSE IF r % 100 = 0 THEN "0." \o ToString(r \div 100)
    ELSE IF r % 10 = 0 THEN "0." \o (IF r < 100 THEN "0" ELSE "") \o ToString(r \div 10)
    ELSE "0." \o Pad3(r)

(***************************************************************************)
(* Near-miss analyzer, app/engine/near_miss.py                             *)
(***************************************************************************)
ENGINE_UJJ_LIMIT == 250000

ENGINE_PMAY_LIMIT == 300000

ENGINE_PMAY_TOLERANCE == 50000

ENGINE_MGNREGA_INCOME == 100000

IsCode(code, s) == code.k = "str" /\ code.s = s

EngineNearMiss(near, suffix, alts) ==
    [kind |-> "NearMissResult", is_near_miss |-> near, flag_suffix |-> suffix,
     alternatives |-> alts]

EngineNearRaised ==
    [kind |-> "raise", is_near_miss |-> FALSE, flag_suffix |-> <<>>,
     alternatives |-> <<>>]

engine_check_near_miss(prof, code) ==
    LET income == OrZero(prof.income)
        rural  == OrZero(prof.rural)
        gender == prof.gender
    IN  IF IsCode(code, "UJJ")
        THEN IF income.k # "int" THEN EngineNearRaised   \* str > int: TypeError
             ELSE
             LET diff == income.n - ENGINE_UJJ_LIMIT
                 near == income.n > ENGINE_UJJ_LIMIT /\ diff * 10 <= 2 * ENGINE_UJJ_LIMIT
                 suffix ==
                    IF near
                    THEN <<"Near Miss: UJJ income just over limit | ",
                           "₹" \o Commas(diff) \o " over ₹2,50,000 | ",
                           "If verified income after deductions falls below ₹2,50,000, eligibility may change.">>
                    ELSE <<>>
                 a1 == IF IsCode(gender, "M") /\ EqOne(rural) THEN <<"PMAY">> ELSE <<>>
                 a2 == IF EqOne(rural) /\ income.n < ENGINE_MGNREGA_INCOME
                       THEN <<"MGNREGA (Job Card)">> ELSE <<>>
             IN  EngineNearMiss(near, suffix, a1 \o a2)
        ELSE IF IsCode(code, "PMAY")
        THEN IF income.k # "int" THEN EngineNearRaised
             ELSE
             LET diff == income.n - ENGINE_PMAY_LIMIT
                 near == income.n > ENGINE_PMAY_LIMIT /\ diff <= ENGINE_PMAY_TOLERANCE
                 suffix ==
                    IF near
                    THEN <<"Near Miss: PMAY EWS income boundary | ",
                           "₹" \o Commas(diff) \o " over ₹3,00,000 | ",
                           "If income after deductions or corrected records falls below ₹3,00,000, they may qualify under EWS.">>
                    ELSE <<>>
             IN  EngineNearMiss(near, suffix, <<>>)
        ELSE EngineNearMiss(FALSE, <<>>, <<>>)

(***************************************************************************)
(* Near-miss analyzer of the route, app/routes/cases.py                    *)
(***************************************************************************)
UJJ_LIMIT == 250000

PMAY_LIMIT == 300000

PMAY_TOLERANCE == 50000

MGNREGA_INCOME == 100000

\* mutant: income exactly at the limit counts as just over it
PmayNear_AtLimit(income) ==
    income >= PMAY_LIMIT /\ income - PMAY_LIMIT <= PMAY_TOLERANCE

\* PMAY: income > limit and diff <= 50_000
PmayNear(income) ==
    income > PMAY_LIMIT /\ income - PMAY_LIMIT <= PMAY_TOLERANCE

\* UJJ: income > limit and diff <= 0.2 * limit
UjjNear(income) ==
    income > UJJ_LIMIT /\ (income - UJJ_LIMIT) * 10 <= 2 * UJJ_LIMIT

NearMissResult(near, key, distance, counterfactual, alts) ==
    [kind |-> "NearMissResult", is_near_miss |-> near, reason_key |-> key,
     distance |-> distance, counterfactual |-> counterfactual, alternatives |-> alts]

NearRaised ==
    [kind |-> "raise", is_near_miss |-> FALSE, reason_key |-> "",
     distance |-> "", counterfactual |-> "", alternatives |-> <<>>]

check_near_miss(prof, code) ==
    LET income == OrZero(prof.income)
        gender == prof.gender
        rural  == OrZero(prof.rural)
    IN  IF IsCode(code, "UJJ")
        THEN IF income.k # "int" THEN NearRaised
             ELSE
             LET diff == income.n - UJJ_LIMIT
                 near == UjjNear(income.n)
                 a1 == IF IsCode(gender, "M") /\ EqOne(rural) THEN <<"PMAY">> ELSE <<>>
                 a2 == IF EqOne(rural) /\ income.n < MGNREGA_INCOME
                       THEN <<"MGNREGA (Job Card)">> ELSE <<>>
             IN  IF near
                 THEN NearMissResult(TRUE, "income_just_over_limit",
                        "₹" \o ToString(diff) \o " over ₹" \o ToString(UJJ_LIMIT),
                        "If verified household income were below ₹" \o ToString(UJJ_LIMIT)
                            \o ", this decision might change.",
                        a1 \o a2)
                 ELSE NearMissResult(FALSE, "", "", "", a1 \o a2)
        ELSE IF IsCode(code, "PMAY")
        THEN IF income.k # "int" THEN NearRaised
             ELSE
             LET diff == income.n - PMAY_LIMIT
                 near == PmayNear(income.n)
             IN  IF near
                 THEN NearMissResult(TRUE, "income_ews_boundary",
                        "₹" \o ToString(diff) \o " over ₹" \o ToString(PMAY_LIMIT),
                        "If verified income after deductions is below ₹300000, they may qualify for EWS category.",
                        <<>>)
                 ELSE NearMissResult(FALSE, "", "", "", <<>>)
        ELSE NearMissResult(FALSE, "", "", "", <<>>)

(***************************************************************************)
(* flag_reason of create_case, app/routes/cases.py                         *)
(***************************************************************************)
\* the rule part of the reason trail: the rule engine's reasons
RuleFlagReason(out) == Join([i \in 1..Len(out.reasons) |-> <<out.reasons[i]>>])

\* mutant: the marker is put first
combined_flag_reason_marker_first(rule_flag_reason, near, risk) ==
    LET p1 == IF rule_flag_reason # <<>> THEN <<rule_flag_reason>> ELSE <<>>
        p2 == IF near.is_near_miss
              THEN << <<"Near Miss: ", near.distance, " | ", near.counterfactual>> >>
              ELSE <<>>
        p3 == << <<"ml_risk=", FloatStr(risk)>> >>
    IN  Join(p3 \o p1 \o p2)

combined_flag_reason(rule_flag_reason, near, risk) ==
    LET p1 == IF rule_flag_reason # <<>> THEN <<rule_flag_reason>> ELSE <<>>
        msg0 == <<"Near Miss: ", near.distance>>
        msg == IF near.counterfactual # ""
               THEN msg0 \o <<" | ", near.counterfactual>> ELSE msg0
        p2 == IF near.is_near_miss THEN <<msg>> ELSE <<>>
        p3 == << <<"ml_risk=", FloatStr(risk)>> >>
    IN  Join(p1 \o p2 \o p3)

(***************************************************************************)
(* Risk scorer.  A probability is a number of thousandths; the raw output  *)
(* of the classifier is a number of ten-thousandths.                       *)
(***************************************************************************)
\* round(x, 3) of a raw output that is no tie
Round3(x) == (x + 5) \div 10

\* app/engine/audit.py
risk_flag_from_prob(prob, marginalized) ==
    LET is_marginalized ==
            IF marginalized.k # "none" THEN Truthy(marginalized) ELSE FALSE
    IN  IF is_marginalized /\ prob < 300 THEN TRUE
        ELSE IF prob < 150 THEN TRUE
        ELSE FALSE

\* what the classifier does on one call: it returns a raw probability, or the
\* artifact is missing or predict_proba raises
Proba(x) == [kind |-> "proba", proba |-> x]

ClfRaises == [kind |-> "raise", proba |-> 0]

EligOut(label, prob, risk, flag) ==
    [kind |-> "ok", label |-> label, prob |-> prob, risk_score |-> risk,
     risk_flag |-> flag]

EligRaised ==
    [kind |-> "raise", label |-> "", prob |-> 0, risk_score |-> 0,
     risk_flag |-> FALSE]

NoElig ==
    [kind |-> "none", label |-> "", prob |-> 0, risk_score |-> 0,
     risk_flag |-> FALSE]

\* app/ai/predictors.py, used by create_case
predict_eligibility(features, clf) ==
    IF clf.kind = "raise" THEN EligRaised
    ELSE
    LET prob == Round3(clf.proba)
        label == IF prob >= 600 THEN "likely" ELSE "uncertain"
        risk == 1000 - prob
    IN  EligOut(label, prob, risk,
                risk_flag_from_prob(prob, features.caste_marginalized))

LOW_INCOME == 120000

\* app/ai/ai_utils.py, used by POST /ai/predict
ai_utils_predict_eligibility(row, clf) ==
    IF clf.kind = "raise" THEN EligRaised
    ELSE
    LET proba == clf.proba
        label == IF proba >= 6000 THEN "likely"
                 ELSE IF proba >= 4000 THEN "uncertain" ELSE "unlikely"
        low_income == IF row.income.n < LOW_INCOME THEN 10000 ELSE 0
        \* round(0.5*(1-proba) + 0.5*low_income, 3)
        risk == ((10000 - proba) + low_income + 10) \div 20
        fairness_flag == /\ EqOne(row.caste_marginalized)
                         /\ proba < 4000
                         /\ row.income.n < LOW_INCOME
    IN  EligOut(label, Round3(proba), risk, fairness_flag)

(***************************************************************************)
(* Arm assignment, app/routes/cases.py                                     *)
(***************************************************************************)
Arm(name, reason) == [name |-> name, reason |-> reason]

\* mutant: the arm alternates with the number of stored cases
assign_arm_by_load(citizen_hash) ==
    IF Cardinality(cases) % 2 = 0
    THEN Arm("TREATMENT", "hash_even_len")
    ELSE Arm("CONTROL", "hash_odd_len")

assign_arm(citizen_hash) ==
    IF Len(citizen_hash) % 2 = 0
    THEN Arm("TREATMENT", "hash_even_len")
    ELSE Arm("CONTROL", "hash_odd_len")

(***************************************************************************)
(* create_case, app/routes/cases.py.  The handler commits twice: the first *)
(* commit inserts the case, the second writes the blinding and ai_shown.   *)
(* A row keeps the columns the handler writes and the risk columns of      *)
(* app/models.py that it leaves at their defaults.                         *)
(***************************************************************************)
\* an Optional[str] column or field
Absent == [some |-> FALSE, text |-> <<>>]

Some(t) == [some |-> TRUE, text |-> t]

\* `not flag_reason`
TextFalsy(o) == ~o.some \/ o.text = <<>>

\* `"Near Miss" in flag_reason`
HasNearMiss(o) == o.some /\ Contains(o.text, "Near Miss: ")

\* a bool is an int
B(b) == I(IF b THEN 1 ELSE 0)

CaseCreate(citizen_hash, code, prof, clf, intent_raises) ==
    [citizen_hash |-> citizen_hash, scheme_code |-> code, profile |-> prof,
     clf |-> clf, intent_raises |-> intent_raises]

AiResult(prob, flag, risk) == [prob |-> prob, risk_flag |-> flag, risk_score |-> risk]

\* the ML stage: ai_result keeps its fallback when predict_eligibility raises,
\* and keeps the prediction when only classify_intent raises
RunMl(req) ==
    LET e == predict_eligibility(req.profile, req.clf)
    IN  IF e.kind = "raise"
        THEN [ai_result |-> AiResult(0, TRUE, 1000), ml_available |-> FALSE]
        ELSE [ai_result |-> AiResult(e.prob, e.risk_flag, e.risk_score),
              ml_available |-> ~req.intent_raises]

AssistOut(audit_flag, reason, alts, rr) ==
    [audit_flag |-> audit_flag, flag_reason |-> reason, alternatives |-> alts,
     rule_result |-> rr]

\* the AssistOut the handler reads, derived from the engine's RuleOut: the
\* rule part of the audit flag is rule_result # ELIGIBLE_BY_RULE
ToAssistOut(out) ==
    AssistOut(out.rule_result # "ELIGIBLE_BY_RULE", RuleFlagReason(out),
              out.alternatives, out.rule_result)

\* rule_result.flag_reason == "invalid_scheme"
InvalidScheme(out) == out.reasons = <<"Invalid scheme code">>

\* mutant: the rejection is caught with the other exceptions of the stage
RunRules_catch_all(req) ==
    LET out == assistive_decision(S(req.scheme_code), req.profile)
    IN  IF out.kind = "raise" \/ InvalidScheme(out)
        THEN [kind |-> "fallback", rule |-> AssistOut(TRUE, <<"engine_error">>, <<>>, "")]
        ELSE [kind |-> "ok", rule |-> ToAssistOut(out)]

\* the rule stage
RunRules(req) ==
    LET out == assistive_decision(S(req.scheme_code), req.profile)
    IN  IF out.kind = "raise"
        THEN [kind |-> "fallback", rule |-> AssistOut(TRUE, <<"engine_error">>, <<>>, "")]
        ELSE IF InvalidScheme(out)
        THEN [kind |-> "400", rule |-> ToAssistOut(out)]
        ELSE [kind |-> "ok", rule |-> ToAssistOut(out)]

\* mutant: only the rule engine's alternatives are returned
rule_alts_only(rule, near) == rule.alternatives

\* mutant: the caste certificate is asked of every UJJ applicant
checklist_caste_always(code, prof) ==
    [kind |-> "ok",
     docs |-> IF code = "UJJ"
              THEN <<"Aadhaar Card (Identity Proof)", "Caste Certificate (SC/ST)">>
              ELSE <<"Aadhaar Card (Identity Proof)">>]

(***************************************************************************)
(* Document checklist, app/engine/docs.py.  The scheme code is compared as *)
(* it was given; an income that is not a number cannot be compared.        *)
(***************************************************************************)
get_document_checklist(code, prof) ==
    LET docs == <<"Aadhaar Card (Identity Proof)">>
    IN  IF code = "UJJ"
        THEN [kind |-> "ok",
              docs |-> docs \o <<"Bank Account Passbook (Front Page)", "Ration Card",
                                 "Passport Size Photo">>
                            \o (IF EqOne(prof.caste_marginalized)
                                THEN <<"Caste Certificate (SC/ST)">> ELSE <<>>)
                            \o (IF EqOne(prof.rural)
                                THEN <<"Gram Panchayat Certificate">> ELSE <<>>)]
        ELSE IF code = "PMAY"
        THEN IF prof.income.k # "int"
             THEN [kind |-> "raise", docs |-> <<>>]
             ELSE [kind |-> "ok",
                   docs |-> docs \o <<"Proof of Land Ownership (Patta/Registry)",
                                      "Bank Account Details">>
                                 \o (IF prof.income.n < 300000
                                     THEN <<"Income Certificate (EWS/LIG)">>
                                     ELSE <<"Income Tax Return (ITR)">>)]
        ELSE [kind |-> "ok", docs |-> docs]

RECURSIVE AppendNew(_, _)
AppendNew(base, extra) ==
    IF extra = <<>> THEN base
    ELSE AppendNew(IF SeqMember(Head(extra), base) THEN base
                   ELSE Append(base, Head(extra)),
                   Tail(extra))

combined_alts(rule, near) == AppendNew(rule.alternatives, near.alternatives)

FailureLog(stage, error_code) ==
    [action |-> "FAILURE_LOG", stage |-> stage, error_code |-> error_code]

Case(id, req, arm, status, confidence, audit_flag, reason) ==
    [id |-> id, citizen_hash |-> req.citizen_hash, scheme_code |-> req.scheme_code,
     status |-> status, arm |-> arm.name, assignment_reason |-> arm.reason,
     review_confidence |-> confidence, audit_flag |-> audit_flag,
     flag_reason |-> reason, ai_shown |-> None,
     risk_score |-> None, risk_band |-> None, top_reasons |-> <<>>,
     decision_support_shown |-> FALSE,
     rule_result |-> None, final_action |-> None, reason_code |-> None,
     operator_id |-> None, override_flag |-> None]

NoProfile ==
    [age |-> None, gender |-> None, rural |-> None, caste_marginalized |-> None,
     income |-> None, income_period |-> None]

NoRequest == CaseCreate("", "", NoProfile, ClfRaises, FALSE)

NoCase == Case(0, NoRequest, Arm("", ""), "", None, FALSE, Absent)

\* CaseResponse.from_orm
CaseResponse(c) ==
    [id |-> c.id, scheme_code |-> c.scheme_code, status |-> c.status,
     review_confidence |-> c.review_confidence, audit_flag |-> c.audit_flag,
     flag_reason |-> c.flag_reason, arm |-> c.arm,
     assignment_reason |-> c.assignment_reason, ai_shown |-> c.ai_shown,
     documents |-> <<>>, alternatives |-> <<>>, error_code |-> "",
     failure_log_id |-> 0]

Http(code, body) == [status_code |-> code, body |-> body]

NoResponse == Http(0, CaseResponse(NoCase))

\* the PMAY near-miss guarantee of the response
PmayGuaranteed(req) ==
    /\ req.scheme_code = "PMAY"
    /\ LET income_val == OrZero(req.profile.income)
       IN  /\ income_val.k = "int"
           /\ income_val.n > 300000
           /\ income_val.n - 300000 <= 50000

GuaranteeText(req) ==
    <<"Near Miss: ",
      "₹" \o ToString(OrZero(req.profile.income).n - 300000) \o " over ₹300000",
      " | ",
      "If verified income after deductions is below ₹300000, they may qualify for EWS category.">>

NeedsGuarantee(req, resp) ==
    PmayGuaranteed(req) /\ (TextFalsy(resp.flag_reason) \/ ~HasNearMiss(resp.flag_reason))

\* mutant: the failure is logged but not reported
AttachFailure_silent(resp, ml_failure_id) == resp

\* failure invariants of the response
AttachFailure(resp, ml_failure_id) ==
    IF ml_failure_id # 0
    THEN [resp EXCEPT !.error_code = "ML_FALLBACK",
                      !.failure_log_id = ml_failure_id,
                      !.audit_flag = TRUE]
    ELSE resp

\* the redaction of a CONTROL view or row
Redact(r) ==
    [r EXCEPT !.review_confidence = None, !.audit_flag = FALSE, !.flag_reason = Absent]


\* a create_case call: its request and the locals the handler computes
Call(n, req, arm_data, ml, ml_failure_id, rule, near, doc_list, alts, record) ==
    [n |-> n, pc |-> "begun", path |-> "", req |-> req, arm_data |-> arm_data,
     ai_result |-> ml.ai_result, ml_available |-> ml.ml_available,
     ml_failure_id |-> ml_failure_id, rule |-> rule,
     is_near_miss |-> near.is_near_miss, doc_list |-> doc_list, alts |-> alts,
     record |-> record,
     response |-> NoResponse]

NoCall ==
    [Call(0, NoRequest, Arm("", ""),
          [ai_result |-> AiResult(0, FALSE, 0), ml_available |-> FALSE], 0,
          AssistOut(FALSE, <<>>, <<>>, ""),
          NearMissResult(FALSE, "", "", "", <<>>), <<>>, <<>>, NoCase)
     EXCEPT !.pc = "idle"]

Effect(c, table, log) == [call |-> c, cases |-> table, events |-> log]

Existing(req) ==
    {c \in cases : c.citizen_hash = req.citizen_hash /\ c.scheme_code = req.scheme_code}

\* the response to a repeat submission, built from the stored row
RepeatResponse(req, existing, alts, ml_failure_id) ==
    LET r0 == [CaseResponse(existing) EXCEPT
                  !.documents = get_document_checklist(existing.scheme_code,
                                                       req.profile).docs,
                  !.alternatives = alts]
        r1 == IF existing.arm = "CONTROL" THEN Redact(r0) ELSE r0
        r2 == IF NeedsGuarantee(req, r1)
              THEN [r1 EXCEPT !.flag_reason = Some(GuaranteeText(req))]
              ELSE r1
    IN  AttachFailure(r2, ml_failure_id)

\* create_case up to its first commit.  An invalid scheme ends the call with
\* 400, a pair already stored ends it with the stored case; otherwise the new
\* case is inserted as the adjudication computed it.
CreateCaseBegin(n, req) ==
    LET arm_data == assign_arm(req.citizen_hash)
        ml == RunMl(req)
        log1 == IF ml.ml_available THEN events
                ELSE Append(events, FailureLog("ml_predict", "ML_FALLBACK"))
        ml_id == IF ml.ml_available THEN 0 ELSE Len(log1)
        rules == RunRules(req)
        log2 == IF rules.kind = "fallback"
                THEN Append(log1, FailureLog("rules_engine", "RULE_ENGINE_FALLBACK"))
                ELSE log1
        ml_failure_id == IF ml_id # 0 THEN ml_id
                         ELSE IF rules.kind = "fallback" THEN Len(log2) ELSE 0
        rule == rules.rule
        near == check_near_miss(req.profile, S(req.scheme_code))
        final_status == IF rule.audit_flag THEN "IN_REVIEW" ELSE "NEW"
        doc_list == get_document_checklist(req.scheme_code, req.profile)
        alts == combined_alts(rule, near)
        reason == combined_flag_reason(rule.flag_reason, near, ml.ai_result.risk_score)
        new_case == Case(Cardinality(cases) + 1, req, arm_data, final_status,
                         I(ml.ai_result.prob),
                         ml.ai_result.risk_flag \/ rule.audit_flag,
                         Some(reason))
        c == Call(n, req, arm_data, ml, ml_failure_id, rule, near, doc_list.docs,
                  alts, new_case)
    IN  IF rules.kind = "400"
        THEN Effect([c EXCEPT !.pc = "done", !.path = "400", !.record = NoCase,
                              !.response = Http(400, CaseResponse(NoCase))],
                    cases, log1)
        ELSE IF near.kind = "raise" \/ doc_list.kind = "raise"
        THEN Effect([c EXCEPT !.pc = "done", !.path = "500", !.record = NoCase,
                              !.response = Http(500, CaseResponse(NoCase))],
                    cases, log2)
        ELSE IF unique_pair /\ Existing(req) # {}
        THEN LET existing == CHOOSE e \in Existing(req) : TRUE
             IN  Effect([c EXCEPT !.pc = "done", !.path = "repeat",
                                  !.response =
                                     Http(201, RepeatResponse(req, existing, alts,
                                                              ml_failure_id))],
                        cases, log2)
        ELSE Effect([c EXCEPT !.pc = "inserted", !.path = "new"],
                    cases \cup {new_case}, log2)

\* create_case after its first commit: the blinding is assigned on the
\* persistent row and flushed by the second commit, then the response is built
\* from the reloaded row
CreateCaseEnd(c, table, log) ==
    LET new_case == c.record
        blinded == IF new_case.arm = "CONTROL" THEN Redact(new_case)
                   ELSE IF ~c.ml_available
                   THEN [new_case EXCEPT !.audit_flag = TRUE,
                                         !.flag_reason = Some(<<"System Maintenance">>)]
                   ELSE new_case
        ai_shown == new_case.arm # "CONTROL"
        stored == [blinded EXCEPT !.ai_shown = B(ai_shown)]
        r0 == [CaseResponse(stored) EXCEPT !.documents = c.doc_list,
                                           !.alternatives = c.alts]
        r1 == AttachFailure(r0, c.ml_failure_id)
        r2 == IF NeedsGuarantee(c.req, r1)
              THEN [r1 EXCEPT !.flag_reason =
                        Some(GuaranteeText(c.req)
                             \o <<"|", "ml_risk=", FloatStr(c.ai_result.risk_score)>>)]
              ELSE r1
    IN  Effect([c EXCEPT !.pc = "done", !.response = Http(201, r2)],
               {IF row.id = new_case.id THEN stored ELSE row : row \in table},
               log)


(***************************************************************************)
(* The boundaries that expose a stored case.  A view gives, for every      *)
(* risk-derived field, the value the boundary emits for the case, Omitted  *)
(* when the boundary has no such field.                                    *)
(***************************************************************************)
Omitted == [k |-> "omitted", n |-> 0, s |-> ""]

Exposure(confidence, risk, band, reasons, audit_flag, shown, reason) ==
    [review_confidence |-> confidence, risk_score |-> risk, risk_band |-> band,
     top_reasons |-> reasons, audit_flag |-> audit_flag,
     decision_support_shown |-> shown, flag_reason |-> reason]

\* GET /cases/{case_id}: CaseResponse.from_orm of the row
get_case(c) ==
    LET resp == CaseResponse(c)
    IN  Exposure(resp.review_confidence, Omitted, Omitted, Omitted,
                 B(resp.audit_flag), resp.ai_shown, resp.flag_reason)

\* GET /cases/export: one row of "data"
export_cases_row(c) ==
    Exposure(c.review_confidence, Omitted, Omitted, Omitted, B(c.audit_flag),
             c.ai_shown, c.flag_reason)

_safe_scalar(val) == IF val.k = "none" THEN S("") ELSE val

RECURSIVE JsonItems(_)
JsonItems(xs) ==
    IF Len(xs) = 0 THEN ""
    ELSE IF Len(xs) = 1 THEN "\"" \o xs[1] \o "\""
    ELSE "\"" \o xs[1] \o "\", " \o JsonItems(Tail(xs))

_json_list(xs) == S("[" \o JsonItems(xs) \o "]")

\* GET /cases/export.csv: the model cells of one row
export_csv_row(c, include_control_model_fields) ==
    LET is_control == c.arm = "CONTROL"
    IN  IF is_control /\ ~include_control_model_fields
        THEN Exposure(S(""), S(""), S(""), S("[]"), S(""), B(FALSE), Absent)
        ELSE Exposure(_safe_scalar(c.review_confidence), _safe_scalar(c.risk_score),
                      _safe_scalar(c.risk_band), _json_list(c.top_reasons),
                      _safe_scalar(B(c.audit_flag)), B(c.decision_support_shown),
                      Absent)

\* f"{x:.2f}" of a number of thousandths
Fixed2(n) ==
    LET h == (n + 5) \div 10
    IN  ToString(h \div 100) \o "." \o (IF h % 100 < 10 THEN "0" ELSE "")
            \o ToString(h % 100)

RECURSIVE JoinComma(_)
JoinComma(xs) ==
    IF Len(xs) = 0 THEN ""
    ELSE IF Len(xs) = 1 THEN xs[1]
    ELSE xs[1] \o ", " \o JoinComma(Tail(xs))

\* the placeholder of an empty dashboard cell (a mis-encoded dash in the source)
DASH == S("--")

\* GET /dashboard: the risk cells of one listed case
dashboard_row(c) ==
    IF c.arm = "CONTROL"
    THEN Exposure(Omitted, DASH, DASH, DASH, Omitted, Omitted, Absent)
    ELSE Exposure(Omitted,
                  IF c.risk_score.k = "none" THEN DASH ELSE S(Fixed2(c.risk_score.n)),
                  IF Truthy(c.risk_band) THEN c.risk_band ELSE DASH,
                  IF c.top_reasons # <<>>
                  THEN S(JoinComma(SubSeq(c.top_reasons, 1,
                                          IF Len(c.top_reasons) < 3
                                          THEN Len(c.top_reasons) ELSE 3)))
                  ELSE DASH,
                  Omitted, Omitted, Absent)

View(boundary, c, shown) ==
    [boundary |-> boundary, id |-> c.id, arm |-> c.arm, shown |-> shown]

NoView == View("", NoCase, Exposure(Omitted, Omitted, Omitted, Omitted, Omitted,
                                     Omitted, Absent))

ExportEvent == [action |-> "EXPORT_CASES", stage |-> "", error_code |-> ""]

(***************************************************************************)
(* The operator desk: POST /dashboard/disposition (app/routes/dashboard.py)*)
(* and PATCH /cases/{id}/status (app/routes/cases.py).  A case id is the   *)
(* number of the case, 0 for an empty id; a missing header or field is "". *)
(***************************************************************************)
StatusEnum == {"NEW", "IN_REVIEW", "APPROVED", "REJECTED"}

FinalActionEnum == {"APPROVE", "REQUEST_DOCS", "ESCALATE", "REJECT"}

ReasonCodeEnum == {"RULE_FAIL", "DOCS_MISSING", "MISMATCH", "FRAUD_SUSPECTED", "OTHER"}

RISK_HIGH_THRESHOLD == 700

ALLOWED_ACTIONS_BY_RULE ==
    [rr \in {"ELIGIBLE_BY_RULE", "UNKNOWN_NEEDS_DOCS", "INELIGIBLE_BY_RULE"} |->
        CASE rr = "ELIGIBLE_BY_RULE" -> {"APPROVE", "REQUEST_DOCS", "ESCALATE", "REJECT"}
          [] rr = "UNKNOWN_NEEDS_DOCS" -> {"REQUEST_DOCS", "ESCALATE", "REJECT"}
          [] rr = "INELIGIBLE_BY_RULE" -> {"REJECT", "ESCALATE"}]

DispositionIn(id, final_action, reason_code, operator_id, rr) ==
    [id |-> id, final_action |-> final_action, reason_code |-> reason_code,
     operator_id |-> operator_id, rule_result |-> rr]

\* str.lower() on the operator ids the model draws
Lower(s) == IF s = "Op7" THEN "op7" ELSE s

Outcome(code, table, log) == [status_code |-> code, cases |-> table, events |-> log]

OpDisposition(case_id, rr_db, final_action, reason_code, operator_id) ==
    [action |-> "OP_DISPOSITION", case_id |-> case_id, rule_result |-> rr_db,
     final_action |-> final_action, reason_code |-> reason_code,
     operator_id |-> operator_id]

\* the rule result the handler reports: the stored one, else the one the
\* page sent, else UNKNOWN_NEEDS_DOCS
RuleResultOf(obj, payload) ==
    LET rr_db == IF obj.rule_result # None THEN obj.rule_result.s
                 ELSE IF payload.rule_result # "" THEN payload.rule_result ELSE "-"
    IN  IF rr_db = "-" THEN "UNKNOWN_NEEDS_DOCS" ELSE rr_db

dashboard_disposition(payload, table, log) ==
    LET operator_id == Lower(payload.operator_id)
        found == {c \in table : c.id = payload.id}
    IN  IF payload.id = 0 THEN Outcome(400, table, log)
        ELSE IF payload.operator_id = "" THEN Outcome(400, table, log)
        ELSE IF found = {} THEN Outcome(404, table, log)
        ELSE IF payload.final_action \notin FinalActionEnum THEN Outcome(400, table, log)
        ELSE IF payload.reason_code \notin ReasonCodeEnum THEN Outcome(400, table, log)
        ELSE
        LET obj == CHOOSE c \in found : TRUE
            rr_db == RuleResultOf(obj, payload)
            final_action == payload.final_action
            status == IF final_action = "REQUEST_DOCS" THEN "IN_REVIEW"
                      ELSE IF final_action = "APPROVE" THEN "APPROVED"
                      ELSE IF final_action = "REJECT" THEN "REJECTED"
                      ELSE "IN_REVIEW"
            override_flag ==
                IF obj.arm = "TREATMENT" /\ obj.decision_support_shown
                THEN B(/\ obj.risk_score # None
                       /\ obj.risk_score.n >= RISK_HIGH_THRESHOLD
                       /\ final_action = "APPROVE")
                ELSE None
            decided == [obj EXCEPT !.final_action = S(final_action),
                                   !.reason_code = S(payload.reason_code),
                                   !.operator_id = S(operator_id),
                                   !.status = status,
                                   !.override_flag = override_flag]
        IN  Outcome(200,
                    {IF c.id = obj.id THEN decided ELSE c : c \in table},
                    Append(log, OpDisposition(obj.id, rr_db, final_action,
                                              payload.reason_code, operator_id)))

MOCK == "123456"

\* mutant: the requested status is not validated
update_status_unvalidated(case_id, status, x_mock_otp, table, log) ==
    IF x_mock_otp # MOCK THEN Outcome(401, table, log)
    ELSE IF {c \in table : c.id = case_id} = {} THEN Outcome(404, table, log)
    ELSE Outcome(200,
                 {IF c.id = case_id THEN [c EXCEPT !.status = status] ELSE c : c \in table},
                 Append(log, [action |-> "UPDATE_STATUS", case_id |-> case_id]))

update_status(case_id, status, x_mock_otp, table, log) ==
    LET found == {c \in table : c.id = case_id}
    IN  IF x_mock_otp # MOCK THEN Outcome(401, table, log)
        ELSE IF found = {} THEN Outcome(404, table, log)
        ELSE IF status \notin StatusEnum THEN Outcome(400, table, log)
        ELSE LET obj == CHOOSE c \in found : TRUE
             IN  Outcome(200,
                         {IF c.id = obj.id THEN [c EXCEPT !.status = status] ELSE c :
                              c \in table},
                         Append(log, [action |-> "UPDATE_STATUS", case_id |-> obj.id]))

\* a desk request and its answer
Op(n, name, req, status_code) ==
    [n |-> n, name |-> name, req |-> req, status_code |-> status_code]

NoOp == Op(0, "", DispositionIn(0, "", "", "", ""), 0)


(***************************************************************************)
(* The classifier handles of the process: the lru_cache of                 *)
(* get_eligibility_model (app/ai/model_loader.py) and the module globals   *)
(* of app/ai/ai_utils.py.  An object is named by the number of the         *)
(* unpickle that created it; 0 is None.  A thread serves one request.      *)
(***************************************************************************)
Loads(lru, elig, intent) == [lru |-> lru, elig |-> elig, intent |-> intent]

Handles(present, lru, elig, clf, vec, nobj, loads) ==
    [present |-> present, lru |-> lru, _elig |-> elig, _clf |-> clf, _vec |-> vec,
     nobj |-> nobj, loads |-> loads]

Features(caste_marginalized, income) ==
    [caste_marginalized |-> caste_marginalized, income |-> income]

Thread(op, at, features, mine, got, out) ==
    [op |-> op, pc |-> at, features |-> features, mine |-> mine, got |-> got,
     out |-> out]

IdleThread == Thread("", "idle", Features(None, None), 0, <<0, 0>>, NoElig)

\* a request enters its getter
Enter(op, features) ==
    Thread(op, IF op = "predictors.predict_eligibility" THEN "lookup" ELSE "check",
           features, 0, <<0, 0>>, NoElig)

\* functools.lru_cache, the cache lookup: a hit returns the cached object
LruLookupStep(th, h) ==
    IF h.lru # 0 THEN [th EXCEPT !.pc = "have", !.got = <<h.lru, 0>>]
    ELSE [th EXCEPT !.pc = "load"]

\* _load_pickle: raises ModelFileMissing or unpickles a new object
LoadPickle(h) == IF h.present THEN h.nobj + 1 ELSE 0

\* functools.lru_cache, after the wrapped call: the result is cached unless
\* the key was added meanwhile, and the caller gets its own result
LruStoreStep(th, h) ==
    [thread |-> [th EXCEPT !.pc = "have", !.got = <<th.mine, 0>>],
     lru |-> IF h.lru = 0 THEN th.mine ELSE h.lru]


\* load_elig, the test `_elig is None`
EligCheckStep(th, h) ==
    IF h._elig = 0 THEN [th EXCEPT !.pc = "load"] ELSE [th EXCEPT !.pc = "return"]

\* load_elig, `return _elig`: the global as it is now
EligReturnStep(th, h) == [th EXCEPT !.pc = "have", !.got = <<h._elig, 0>>]

\* load_intent, the test `_clf is None or _vec is None`
IntentCheckStep(th, h) ==
    IF h._clf = 0 \/ h._vec = 0 THEN [th EXCEPT !.pc = "load"]
    ELSE [th EXCEPT !.pc = "return"]

\* load_intent, `return _clf, _vec`: the two globals as they are now
IntentReturnStep(th, h) == [th EXCEPT !.pc = "have", !.got = <<h._clf, h._vec>>]

\* the answer of a request once its getter returned or raised
Answer(th, clf) ==
    IF th.pc = "raised" THEN EligRaised
    ELSE IF th.op = "predictors.predict_eligibility"
    THEN predict_eligibility(th.features, clf)
    ELSE IF th.op = "ai_utils.predict_eligibility"
    THEN ai_utils_predict_eligibility(th.features, clf)
    ELSE [NoElig EXCEPT !.kind = "intent"]

(***************************************************************************)
(* Inputs                                                                  *)
(***************************************************************************)
MaxDelta == 1

SchemeCodes == {None, I(123), S("PMAY"), S("UJJ"), S("pmay"), S("BAD")}

Ages == {None, I(17), I(18), S("abc")}

Genders == {None, S("F"), S("M")}

Flags == {I(0), I(1), S("yes")}

\* annual amounts around every income boundary of the program, and monthly
\* amounts whose twelvefold lies around a band boundary
IncomeBoundaries ==
    {UJJ_BPL_MAX, PMAY_EWS_MAX, PMAY_LIG_MAX, UJJ_LIMIT, PMAY_LIMIT,
     PMAY_LIMIT + PMAY_TOLERANCE, MGNREGA_INCOME}

IncomeInts ==
    {b + d : b \in IncomeBoundaries, d \in (0 - MaxDelta)..MaxDelta}
    \cup {(b \div 12) + d : b \in {UJJ_BPL_MAX, PMAY_EWS_MAX, PMAY_LIG_MAX},
                            d \in (0 - MaxDelta)..MaxDelta}
    \cup {0, 20000, 310000}

Incomes == {None, S("abc")} \cup {I(n) : n \in IncomeInts}

RiskScores == {0, 150, 700, 1000}

Periods == {None, S("annual"), S("monthly"), S("weekly")}

Profiles ==
    [age : Ages, gender : Genders, rural : Flags, caste_marginalized : Flags,
     income : Incomes, income_period : Periods]

\* create_case requests: a CONTROL and a TREATMENT citizen, the two schemes and
\* an unknown code, profiles of the request shape with an optional income
\* period, and every outcome of the two classifiers
MaxCalls == 2

MaxExports == 1

\* create_case calls made while the boundaries are read
MaxListed == 1

\* desk requests in one behaviour
MaxOps == 2

NumThreads == 2

CitizenHashes == {"a", "GamerUser1"}

CaseSchemes == {"PMAY", "UJJ", "BAD"}

CaseProfiles ==
    [age : {I(30)}, gender : {S("F")}, rural : {I(0)},
     caste_marginalized : {I(0), I(1)}, income : {I(20000), I(310000)},
     income_period : {None, S("annual")}]
    \cup
    [age : {I(30)}, gender : {S("M"), S("F")}, rural : {I(1)},
     caste_marginalized : {I(0)}, income : {I(20000)},
     income_period : {S("annual")}]

\* raw classifier outputs, none of them a tie of round(x, 3)
RawProbas == {1000, 2500, 2996, 8000}

Classifier == {ClfRaises} \cup {Proba(x) : x \in RawProbas}

Requests ==
    {CaseCreate(h, s, p, clf, ir) :
        h \in CitizenHashes, s \in CaseSchemes, p \in CaseProfiles,
        clf \in Classifier, ir \in BOOLEAN}

Threads == 1..NumThreads

Ops == {"predictors.predict_eligibility", "ai_utils.predict_eligibility",
        "ai_utils.classify_intent"}

AiFeatures == {Features(c, I(n)) : c \in {I(0), I(1)}, n \in {100000, 200000}}

PipeIdle ==
    /\ scheme_code = None
    /\ profile = NoProfile
    /\ risk_score = 0
    /\ pc = "off"
    /\ rule_out = NoOut
    /\ near_engine = EngineNearMiss(FALSE, <<>>, <<>>)
    /\ near_res = NearMissResult(FALSE, "", "", "", <<>>)
    /\ flag_reason = <<>>

CasesIdle ==
    /\ cases = {}
    /\ events = <<>>
    /\ call = NoCall
    /\ calls = {}
    /\ view = NoView
    /\ desk = NoOp

AiIdle ==
    /\ handles = Handles(TRUE, 0, 0, 0, 0, 0, Loads(0, 0, 0))
    /\ threads = [t \in Threads |-> IdleThread]

(***************************************************************************)
(* State machine                                                           *)
(***************************************************************************)
Init ==
    /\ scheme_code \in SchemeCodes
    /\ profile \in Profiles
    /\ risk_score = 0
    /\ pc = "input"
    /\ rule_out = NoOut
    /\ near_engine = EngineNearMiss(FALSE, <<>>, <<>>)
    /\ near_res = NearMissResult(FALSE, "", "", "", <<>>)
    /\ flag_reason = <<>>
    /\ CasesIdle
    /\ unique_pair = FALSE
    /\ AiIdle

EvaluateRules ==
    /\ pc = "input"
    /\ rule_out' = assistive_decision(scheme_code, profile)
    /\ pc' = "ruled"
    /\ UNCHANGED <<scheme_code, profile, risk_score, near_engine, near_res, flag_reason>>
    /\ UNCHANGED <<caseVars, aiVars>>

AnalyzeNearMissEngine ==
    /\ pc = "ruled"
    /\ near_engine' = engine_check_near_miss(profile, scheme_code)
    /\ pc' = "engine_near"
    /\ UNCHANGED <<scheme_code, profile, risk_score, rule_out, near_res, flag_reason>>
    /\ UNCHANGED <<caseVars, aiVars>>

AnalyzeNearMiss ==
    /\ pc = "engine_near"
    /\ near_res' = check_near_miss(profile, scheme_code)
    /\ pc' = "near"
    /\ UNCHANGED <<scheme_code, profile, risk_score, rule_out, near_engine, flag_reason>>
    /\ UNCHANGED <<caseVars, aiVars>>

\* the reason trail is joined only when neither call raised
CombineFlagReason ==
    /\ pc = "near"
    /\ rule_out.kind = "RuleOut"
    /\ near_res.kind = "NearMissResult"
    /\ \E r \in RiskScores :
         /\ risk_score' = r
         /\ flag_reason' = combined_flag_reason(RuleFlagReason(rule_out), near_res, r)
    /\ pc' = "done"
    /\ UNCHANGED <<scheme_code, profile, rule_out, near_engine, near_res>>
    /\ UNCHANGED <<caseVars, aiVars>>

Next ==
    \/ EvaluateRules
    \/ AnalyzeNearMissEngine
    \/ AnalyzeNearMiss
    \/ CombineFlagReason

Spec == Init /\ [][Next]_vars

(***************************************************************************)
(* create_case, one call after the other                                   *)
(***************************************************************************)
\* what a completed call assigned and what it reported
CallEntry(c) ==
    [n |-> c.n, citizen_hash |-> c.req.citizen_hash,
     scheme_code |-> c.req.scheme_code, assigned |-> c.arm_data,
     shown |-> IF c.response.status_code = 201
               THEN Arm(c.response.body.arm, c.response.body.assignment_reason)
               ELSE Arm("", "")]

InitCases == PipeIdle /\ CasesIdle /\ AiIdle /\ unique_pair \in BOOLEAN

\* POST /cases/, the whole handler
CreateCase ==
    /\ call.pc \in {"idle", "done"}
    /\ call.n < MaxCalls
    /\ \E req \in Requests :
         \E b \in {CreateCaseBegin(call.n + 1, req)} :
         \E e \in {IF b.call.pc = "done" THEN b
                   ELSE CreateCaseEnd(b.call, b.cases, b.events)} :
             /\ cases' = e.cases
             /\ events' = e.events
             /\ call' = e.call
             /\ calls' = calls \cup {CallEntry(e.call)}
    /\ UNCHANGED <<view, desk, unique_pair, pipeVars, aiVars>>

NextCases == CreateCase

SpecCases == InitCases /\ [][NextCases]_vars

(***************************************************************************)
(* create_case at the grain of its commits, with the reads of other        *)
(* requests in between                                                     *)
(***************************************************************************)
\* create_case through its first commit
CreateCaseInsert ==
    /\ call.pc \in {"idle", "done"}
    /\ call.n < MaxListed
    /\ \E req \in Requests :
         \E b \in {CreateCaseBegin(call.n + 1, req)} :
             /\ cases' = b.cases
             /\ events' = b.events
             /\ call' = b.call
             /\ calls' = IF b.call.pc = "done" THEN calls \cup {CallEntry(b.call)}
                         ELSE calls
    /\ UNCHANGED <<view, desk, unique_pair, pipeVars, aiVars>>

\* create_case from the blinding to the response
CreateCaseRespond ==
    /\ call.pc = "inserted"
    /\ \E e \in {CreateCaseEnd(call, cases, events)} :
           /\ cases' = e.cases
           /\ events' = e.events
           /\ call' = e.call
           /\ calls' = calls \cup {CallEntry(e.call)}
    /\ UNCHANGED <<view, desk, unique_pair, pipeVars, aiVars>>

\* GET /cases/{case_id}; an id that names no case is answered 404
GetCase ==
    /\ \E case_id \in 1..(Cardinality(cases) + 1) :
         LET found == {c \in cases : c.id = case_id}
         IN  IF found = {} THEN view' = [NoView EXCEPT !.boundary = "get_case"]
             ELSE \E c \in found : view' = View("get_case", c, get_case(c))
    /\ UNCHANGED <<cases, events, call, calls, desk, unique_pair, pipeVars, aiVars>>

Listed == IF cases = {} THEN {NoCase} ELSE cases

\* GET /cases/export: every row, and one chain-of-custody event
ExportCases ==
    /\ Cardinality({i \in DOMAIN events : events[i].action = "EXPORT_CASES"})
           < MaxExports
    /\ \E c \in Listed : view' = View("export_cases", c, export_cases_row(c))
    /\ events' = Append(events, ExportEvent)
    /\ UNCHANGED <<cases, call, calls, desk, unique_pair, pipeVars, aiVars>>

\* GET /cases/export.csv
ExportCsv ==
    /\ \E c \in Listed, include_control_model_fields \in BOOLEAN :
         view' = View(IF include_control_model_fields
                      THEN "export_csv?include_control_model_fields=true"
                      ELSE "export_csv",
                      c, export_csv_row(c, include_control_model_fields))
    /\ UNCHANGED <<cases, events, call, calls, desk, unique_pair, pipeVars, aiVars>>

\* GET /dashboard
Dashboard ==
    /\ \E c \in Listed : view' = View("dashboard", c, dashboard_row(c))
    /\ UNCHANGED <<cases, events, call, calls, desk, unique_pair, pipeVars, aiVars>>

NextBoundaries ==
    \/ CreateCaseInsert
    \/ CreateCaseRespond
    \/ GetCase
    \/ ExportCases
    \/ ExportCsv
    \/ Dashboard

SpecBoundaries == InitCases /\ [][NextBoundaries]_vars

(***************************************************************************)
(* The operator desk after cases were submitted                            *)
(***************************************************************************)
\* the submissions that reach the desk: the classifier answers
DeskRequests ==
    {r \in Requests : /\ r.clf = Proba(2500)
                      /\ ~r.intent_raises
                      /\ r.profile.caste_marginalized = I(0)
                      /\ r.profile.income = I(20000)}

DispositionPayloads ==
    {DispositionIn(id, fa, rc, o, rr) :
        id \in 0..(MaxListed + 1), fa \in FinalActionEnum \cup {"HOLD"},
        rc \in {"OTHER", "RULE_FAIL", "LATE"}, o \in {"", "Op7"},
        rr \in {"", "INELIGIBLE_BY_RULE"}}

InitDesk == PipeIdle /\ CasesIdle /\ AiIdle /\ unique_pair = FALSE

\* POST /cases/, the whole handler
SubmitCase ==
    /\ call.pc \in {"idle", "done"}
    /\ call.n < MaxListed
    /\ \E req \in DeskRequests :
         \E b \in {CreateCaseBegin(call.n + 1, req)} :
         \E e \in {IF b.call.pc = "done" THEN b
                   ELSE CreateCaseEnd(b.call, b.cases, b.events)} :
             /\ cases' = e.cases
             /\ events' = e.events
             /\ call' = e.call
             /\ calls' = calls \cup {CallEntry(e.call)}
    /\ UNCHANGED <<view, desk, unique_pair, pipeVars, aiVars>>

\* POST /dashboard/disposition
Disposition ==
    /\ desk.n < MaxOps
    /\ \E payload \in DispositionPayloads :
         \E o \in {dashboard_disposition(payload, cases, events)} :
             /\ cases' = o.cases
             /\ events' = o.events
             /\ desk' = Op(desk.n + 1, "dashboard_disposition", payload, o.status_code)
    /\ UNCHANGED <<call, calls, view, unique_pair, pipeVars, aiVars>>

\* PATCH /cases/{case_id}/status
UpdateStatus ==
    /\ desk.n < MaxOps
    /\ \E case_id \in 1..(MaxListed + 1), status \in StatusEnum \cup {"DONE"},
          x_mock_otp \in {"", "000000", MOCK} :
         \E o \in {update_status(case_id, status, x_mock_otp, cases, events)} :
             /\ cases' = o.cases
             /\ events' = o.events
             /\ desk' = Op(desk.n + 1, "update_status",
                         [case_id |-> case_id, status |-> status,
                          x_mock_otp |-> x_mock_otp],
                         o.status_code)
    /\ UNCHANGED <<call, calls, view, unique_pair, pipeVars, aiVars>>

NextDesk ==
    \/ SubmitCase
    \/ Disposition
    \/ UpdateStatus

SpecDesk == InitDesk /\ [][NextDesk]_vars

(***************************************************************************)
(* The classifier handles under concurrent requests.  The handlers are     *)
(* plain functions, which the server runs on a pool of threads.            *)
(***************************************************************************)
InitAi ==
    /\ PipeIdle
    /\ CasesIdle
    /\ unique_pair = FALSE
    /\ handles \in {Handles(p, 0, 0, 0, 0, 0, Loads(0, 0, 0)) : p \in BOOLEAN}
    /\ threads = [t \in Threads |-> IdleThread]

Step(t, th, h) ==
    /\ threads' = [threads EXCEPT ![t] = th]
    /\ handles' = h
    /\ UNCHANGED <<pipeVars, caseVars>>

\* a request arrives and calls its getter
Start ==
    \E t \in Threads, op \in Ops, f \in AiFeatures :
        /\ threads[t].pc = "idle"
        /\ Step(t, Enter(op, f), handles)

\* get_eligibility_model: the cache lookup of lru_cache
LruLookup ==
    \E t \in Threads :
        /\ threads[t].op = "predictors.predict_eligibility"
        /\ threads[t].pc = "lookup"
        /\ Step(t, LruLookupStep(threads[t], handles), handles)

\* get_eligibility_model: the wrapped call, outside any lock
LruLoad ==
    \E t \in Threads :
        /\ threads[t].op = "predictors.predict_eligibility"
        /\ threads[t].pc = "load"
        /\ LET obj == LoadPickle(handles)
           IN  IF obj = 0 THEN Step(t, [threads[t] EXCEPT !.pc = "raised"], handles)
               ELSE Step(t, [threads[t] EXCEPT !.pc = "store", !.mine = obj],
                         [handles EXCEPT !.nobj = obj,
                                         !.loads.lru = handles.loads.lru + 1])

\* get_eligibility_model: the cache update of lru_cache
LruStore ==
    \E t \in Threads :
        /\ threads[t].op = "predictors.predict_eligibility"
        /\ threads[t].pc = "store"
        /\ LET s == LruStoreStep(threads[t], handles)
           IN  Step(t, s.thread, [handles EXCEPT !.lru = s.lru])

EligCheck ==
    \E t \in Threads :
        /\ threads[t].op = "ai_utils.predict_eligibility"
        /\ threads[t].pc = "check"
        /\ Step(t, EligCheckStep(threads[t], handles), handles)

\* load_elig: the file is read, unpickled and bound to _elig
EligLoad ==
    \E t \in Threads :
        /\ threads[t].op = "ai_utils.predict_eligibility"
        /\ threads[t].pc = "load"
        /\ LET obj == LoadPickle(handles)
           IN  IF obj = 0 THEN Step(t, [threads[t] EXCEPT !.pc = "raised"], handles)
               ELSE Step(t, [threads[t] EXCEPT !.pc = "return", !.mine = obj],
                         [handles EXCEPT !.nobj = obj, !._elig = obj,
                                         !.loads.elig = handles.loads.elig + 1])

EligReturn ==
    \E t \in Threads :
        /\ threads[t].op = "ai_utils.predict_eligibility"
        /\ threads[t].pc = "return"
        /\ Step(t, EligReturnStep(threads[t], handles), handles)

IntentCheck ==
    \E t \in Threads :
        /\ threads[t].op = "ai_utils.classify_intent"
        /\ threads[t].pc = "check"
        /\ Step(t, IntentCheckStep(threads[t], handles), handles)

\* load_intent: intent_nb.pkl is read, unpickled and bound to _clf
IntentLoadClf ==
    \E t \in Threads :
        /\ threads[t].op = "ai_utils.classify_intent"
        /\ threads[t].pc = "load"
        /\ LET obj == LoadPickle(handles)
           IN  IF obj = 0 THEN Step(t, [threads[t] EXCEPT !.pc = "raised"], handles)
               ELSE Step(t, [threads[t] EXCEPT !.pc = "load_vec", !.mine = obj],
                         [handles EXCEPT !.nobj = obj, !._clf = obj,
                                         !.loads.intent = handles.loads.intent + 1])

\* load_intent: intent_vectorizer.pkl is read, unpickled and bound to _vec;
\* the vectorizer carries the number of the classifier loaded with it
IntentLoadVec ==
    \E t \in Threads :
        /\ threads[t].op = "ai_utils.classify_intent"
        /\ threads[t].pc = "load_vec"
        /\ Step(t, [threads[t] EXCEPT !.pc = "return"],
                [handles EXCEPT !._vec = threads[t].mine])

IntentReturn ==
    \E t \in Threads :
        /\ threads[t].op = "ai_utils.classify_intent"
        /\ threads[t].pc = "return"
        /\ Step(t, IntentReturnStep(threads[t], handles), handles)

\* the classifier is applied and the request answered
Respond ==
    \E t \in Threads, clf \in Classifier :
        /\ threads[t].pc \in {"have", "raised"}
        /\ Step(t, [threads[t] EXCEPT !.pc = "done", !.out = Answer(threads[t], clf)],
                handles)

NextAi ==
    \/ Start
    \/ LruLookup
    \/ LruLoad
    \/ LruStore
    \/ EligCheck
    \/ EligLoad
    \/ EligReturn
    \/ IntentCheck
    \/ IntentLoadClf
    \/ IntentLoadVec
    \/ IntentReturn
    \/ Respond

SpecAi == InitAi /\ [][NextAi]_vars

(***************************************************************************)
(* Vocabulary of the properties, stated on the inputs of a call            *)
(***************************************************************************)
Ruled == pc # "input"

NumOrAbsent(v) == v.k \in {"none", "int"}

NumVal(v) == IF v.k = "int" THEN v.n ELSE 0

\* a profile of the documented shape: numeric or absent age and flags
WellTypedProfile(p) ==
    NumOrAbsent(p.age) /\ NumOrAbsent(p.rural) /\ NumOrAbsent(p.caste_marginalized)

\* a scheme code of the documented shape: a string, or absent
WellTypedCode(c) == c.k \in {"none", "str"}

Known(c) == c.k = "str" /\ Upper(c.s) \in DOMAIN SCHEME_CONFIG

Criteria(c) == SCHEME_CONFIG[Upper(c.s)].criteria

IncomeMissing(p) == p.income.k = "none" \/ p.income_period.k = "none"

ValidIncome(p) == p.income.k = "int" /\ p.income_period \in {S("annual"), S("monthly")}

Annual(p) == IF p.income_period = S("annual") THEN p.income.n ELSE 12 * p.income.n

AgeFails(c, p) == NumVal(p.age) < Criteria(c).min_age

GenderFails(c, p) ==
    /\ Criteria(c).gender # <<>>
    /\ ~(p.gender.k = "str" /\ SeqMember(p.gender.s, Criteria(c).gender))

RuralFails(c, p) == Criteria(c).must_be_rural /\ NumVal(p.rural) # 1

BandFits(c, p) ==
    {i \in 1..Len(Criteria(c).income_bands) : Annual(p) <= Criteria(c).income_bands[i].max}

BandFails(c, p) == Criteria(c).income_bands # <<>> /\ BandFits(c, p) = {}

CasteFails(c, p) == Criteria(c).requires_marginalized /\ NumVal(p.caste_marginalized) # 1

AnyGuardFails(c, p) ==
    AgeFails(c, p) \/ GenderFails(c, p) \/ RuralFails(c, p) \/ BandFails(c, p)
        \/ CasteFails(c, p)

Unknown1(reason) ==
    /\ rule_out.kind = "RuleOut"
    /\ rule_out.rule_result = "UNKNOWN_NEEDS_DOCS"
    /\ rule_out.reasons = <<reason>>
    /\ rule_out.tags = <<>>

(***************************************************************************)
(* C1: for every scheme code and every profile, malformed ones included,   *)
(* assistive_decision returns a RuleOut, never raises, and rule_result is  *)
(* one of the three defined values.                                        *)
(***************************************************************************)
C1_AlwaysReturnsRuleOut ==
    Ruled =>
        /\ rule_out.kind = "RuleOut"
        /\ rule_out.rule_result \in
              {"ELIGIBLE_BY_RULE", "INELIGIBLE_BY_RULE", "UNKNOWN_NEEDS_DOCS"}

(***************************************************************************)
(* C2: UNKNOWN_NEEDS_DOCS is returned exactly in three cases, each with a  *)
(* one-element reasons list and no guard evaluated: unknown scheme code    *)
(* (first), else income or period absent, else a period other than         *)
(* annual/monthly or an income that is no integer; in no other case.       *)
(***************************************************************************)
C2_UnknownExactlyThreeCases ==
    /\ (Ruled /\ WellTypedCode(scheme_code) /\ WellTypedProfile(profile)) =>
          IF ~Known(scheme_code) THEN Unknown1("Invalid scheme code")
          ELSE IF IncomeMissing(profile)
          THEN Unknown1("Income or income period missing")
          ELSE IF ~ValidIncome(profile) THEN Unknown1("Invalid income format")
          ELSE rule_out.kind = "RuleOut" /\ rule_out.rule_result # "UNKNOWN_NEEDS_DOCS"
    \* whatever the input, an UNKNOWN_NEEDS_DOCS is one of the three cases
    /\ (Ruled /\ rule_out.rule_result = "UNKNOWN_NEEDS_DOCS") =>
          \/ ~Known(scheme_code) /\ Unknown1("Invalid scheme code")
          \/ /\ Known(scheme_code) /\ IncomeMissing(profile)
             /\ Unknown1("Income or income period missing")
          \/ /\ Known(scheme_code) /\ ~IncomeMissing(profile) /\ ~ValidIncome(profile)
             /\ Unknown1("Invalid income format")

C2_Witness ==
    /\ Ruled
    /\ WellTypedProfile(profile)
    /\ Known(scheme_code)
    /\ profile.income.k = "int"
    /\ profile.income_period = S("weekly")
    /\ Unknown1("Invalid income format")

(***************************************************************************)
(* C3: for a known scheme and valid income, the result is ELIGIBLE_BY_RULE *)
(* iff no guard fails; the eligible outcome has no reasons and keeps its   *)
(* band tag; otherwise it is INELIGIBLE_BY_RULE with at least one reason   *)
(* and the scheme's static alternatives.                                   *)
(***************************************************************************)
C3_EligibleIffNoGuardFails ==
    (Ruled /\ Known(scheme_code) /\ WellTypedProfile(profile) /\ ValidIncome(profile)) =>
        /\ rule_out.kind = "RuleOut"
        /\ IF AnyGuardFails(scheme_code, profile)
           THEN /\ rule_out.rule_result = "INELIGIBLE_BY_RULE"
                /\ Len(rule_out.reasons) >= 1
                /\ rule_out.alternatives = SCHEME_CONFIG[Upper(scheme_code.s)].alternatives
           ELSE /\ rule_out.rule_result = "ELIGIBLE_BY_RULE"
                /\ rule_out.reasons = <<>>
                /\ (Criteria(scheme_code).income_bands # <<>> => Len(rule_out.tags) = 1)

C3_Witness ==
    /\ Ruled
    /\ Known(scheme_code) /\ WellTypedProfile(profile) /\ ValidIncome(profile)
    /\ ~AnyGuardFails(scheme_code, profile)
    /\ rule_out.rule_result = "ELIGIBLE_BY_RULE"
    /\ Len(rule_out.tags) = 1

(***************************************************************************)
(* C4: guard failures are accumulated: the reasons list holds exactly one  *)
(* reason per failing guard and none for a passing one, in the order age,  *)
(* gender, rural, income band, social category.                            *)
(***************************************************************************)
ReasonIf(fails, reason) == IF fails THEN <<reason>> ELSE <<>>

ExpectedReasons(c, p) ==
    ReasonIf(AgeFails(c, p), "Age must be " \o ToString(Criteria(c).min_age) \o "+")
    \o ReasonIf(GenderFails(c, p), "Applicant category not eligible")
    \o ReasonIf(RuralFails(c, p), "Must be Rural")
    \o ReasonIf(BandFails(c, p), "Income exceeds all eligible bands")
    \o ReasonIf(CasteFails(c, p), "Must belong to eligible social category")

C4_ReasonsAccumulated ==
    (Ruled /\ Known(scheme_code) /\ WellTypedProfile(profile) /\ ValidIncome(profile)) =>
        rule_out.reasons = ExpectedReasons(scheme_code, profile)

C4_Witness ==
    /\ Ruled
    /\ Known(scheme_code) /\ WellTypedProfile(profile) /\ ValidIncome(profile)
    /\ AgeFails(scheme_code, profile)
    /\ GenderFails(scheme_code, profile)
    /\ BandFails(scheme_code, profile)
    /\ Len(rule_out.reasons) = 3

(***************************************************************************)
(* C5: the income compared against the bands is the income itself for an   *)
(* annual period and twelve times it for a monthly one; the outcome for    *)
(* (m, monthly) equals the outcome for (12*m, annual), other fields equal. *)
(***************************************************************************)
AsAnnual(p) ==
    [p EXCEPT !.income = I(12 * p.income.n), !.income_period = S("annual")]

C5_MonthlyIsTwelvefoldAnnual ==
    /\ (Ruled /\ profile.income.k = "int" /\ profile.income_period = S("monthly")) =>
          rule_out = assistive_decision(scheme_code, AsAnnual(profile))
    /\ (Ruled /\ Known(scheme_code) /\ WellTypedProfile(profile) /\ ValidIncome(profile)) =>
          (SeqMember("Income exceeds all eligible bands", rule_out.reasons)
              <=> BandFails(scheme_code, profile))

C5_Witness ==
    /\ Ruled
    /\ scheme_code = S("PMAY")
    /\ WellTypedProfile(profile)
    /\ profile.income_period = S("monthly")
    /\ profile.income.k = "int"
    /\ profile.income.n <= PMAY_EWS_MAX
    /\ 12 * profile.income.n > PMAY_EWS_MAX
    /\ rule_out.kind = "RuleOut"
    /\ rule_out.tags = <<"PMAY_BAND:LIG (Low Income Group)">>

(***************************************************************************)
(* C6: band matching is first-match in ascending order of max: at most one *)
(* band tag, "<scheme>_BAND:<name>" of the first band whose max is >= the  *)
(* annual income, never a later band; when no band fits, the reason        *)
(* "Income exceeds all eligible bands" and no band tag.                    *)
(***************************************************************************)
FirstFit(c, p) == CHOOSE i \in BandFits(c, p) : \A j \in BandFits(c, p) : i <= j

BandsAscending(c) ==
    \A i, j \in 1..Len(Criteria(c).income_bands) :
        i < j => Criteria(c).income_bands[i].max <= Criteria(c).income_bands[j].max

C6_FirstMatchBand ==
    (Ruled /\ Known(scheme_code) /\ WellTypedProfile(profile) /\ ValidIncome(profile)
       /\ Criteria(scheme_code).income_bands # <<>>) =>
        /\ BandsAscending(scheme_code)
        /\ Len(rule_out.tags) <= 1
        /\ IF BandFits(scheme_code, profile) # {}
           THEN /\ rule_out.tags =
                     <<scheme_code.s \o "_BAND:" \o
                       Criteria(scheme_code).income_bands[FirstFit(scheme_code, profile)].name>>
                /\ ~SeqMember("Income exceeds all eligible bands", rule_out.reasons)
           ELSE /\ rule_out.tags = <<>>
                /\ SeqMember("Income exceeds all eligible bands", rule_out.reasons)

C6_Witness ==
    /\ Ruled
    /\ scheme_code = S("PMAY")
    /\ WellTypedProfile(profile) /\ ValidIncome(profile)
    /\ Cardinality(BandFits(scheme_code, profile)) = 2
    /\ rule_out.tags = <<"PMAY_BAND:EWS (Economically Weaker)">>

(***************************************************************************)
(* C7: for PMAY and a profile passing the other guards with annual income  *)
(* at most 300000, the result is ELIGIBLE_BY_RULE and the tags contain the *)
(* element "PMAY_BAND:EWS".                                                *)
(***************************************************************************)
C7_PmayEwsTag ==
    (Ruled /\ scheme_code = S("PMAY") /\ WellTypedProfile(profile) /\ ValidIncome(profile)
       /\ ~AgeFails(scheme_code, profile) /\ ~GenderFails(scheme_code, profile)
       /\ ~RuralFails(scheme_code, profile) /\ ~CasteFails(scheme_code, profile)
       /\ Annual(profile) <= 300000) =>
        /\ rule_out.rule_result = "ELIGIBLE_BY_RULE"
        /\ SeqMember("PMAY_BAND:EWS", rule_out.tags)

(***************************************************************************)
(* C8: for UJJ, every profile with rural = 0 and valid income is           *)
(* INELIGIBLE_BY_RULE and its reasons contain "Must be Rural".             *)
(***************************************************************************)
C8_UjjRequiresRural ==
    (Ruled /\ scheme_code = S("UJJ") /\ WellTypedProfile(profile) /\ ValidIncome(profile)
       /\ profile.rural = I(0)) =>
        /\ rule_out.rule_result = "INELIGIBLE_BY_RULE"
        /\ SeqMember("Must be Rural", rule_out.reasons)

(***************************************************************************)
(* C9: check_near_miss reports a near miss iff 0 < income - limit <=       *)
(* tolerance, with (250000, 50000) for UJJ and (300000, 50000) for PMAY:   *)
(* not at the limit, yes from limit+1 through limit+tolerance, not above;  *)
(* always false for any other scheme code.  Both analyzers.                *)
(***************************************************************************)
JustOver(income, limit, tolerance) ==
    0 < income - limit /\ income - limit <= tolerance

NearExpected(c, p) ==
    \/ c = S("UJJ") /\ JustOver(NumVal(p.income), 250000, 50000)
    \/ c = S("PMAY") /\ JustOver(NumVal(p.income), 300000, 50000)

NearDone == pc \in {"near", "done"}

C9_NearMissBoundary ==
    (NearDone /\ NumOrAbsent(profile.income)) =>
        /\ near_res.kind = "NearMissResult"
        /\ near_res.is_near_miss = NearExpected(scheme_code, profile)
        /\ near_engine.kind = "NearMissResult"
        /\ near_engine.is_near_miss = NearExpected(scheme_code, profile)

C9_Witness ==
    /\ NearDone
    /\ scheme_code = S("PMAY")
    /\ profile.income = I(PMAY_LIMIT + PMAY_TOLERANCE)
    /\ near_res.is_near_miss
    /\ near_engine.is_near_miss

(***************************************************************************)
(* C10: Scenario B: for PMAY a profile with annual income 310000 gets      *)
(* rule_result = INELIGIBLE_BY_RULE and is_near_miss = true, and the       *)
(* flag_reason holds the near-miss marker and a counterfactual sentence.   *)
(***************************************************************************)
C10_ScenarioB ==
    (pc = "done" /\ scheme_code = S("PMAY") /\ profile.income = I(310000)
       /\ profile.income_period = S("annual")) =>
        /\ rule_out.rule_result = "INELIGIBLE_BY_RULE"
        /\ near_res.is_near_miss
        /\ Contains(flag_reason, "Near Miss: ")
        /\ near_res.counterfactual # ""
        /\ Contains(flag_reason, near_res.counterfactual)

(***************************************************************************)
(* Vocabulary of the properties of the risk scorer                         *)
(***************************************************************************)
\* the requests whose eligibility prediction was answered
Predicted == {t \in Threads : threads[t].pc = "done" /\ threads[t].out.kind = "ok"}

Marginalized(p) == Truthy(p.caste_marginalized)

\* marginalized and probability < 0.3, or probability < 0.15
FairnessGuard(p, prob) == (Marginalized(p) /\ prob < 300) \/ prob < 150

(***************************************************************************)
(* C11: the risk_flag of an eligibility prediction is true iff the profile *)
(* is marginalized and the probability is below 0.3, or the probability is *)
(* below 0.15, whatever the income and the other fields of the profile.    *)
(***************************************************************************)
C11_FairnessGuard ==
    \A t \in Predicted :
        threads[t].out.risk_flag
            <=> FairnessGuard(threads[t].features, threads[t].out.prob)

(***************************************************************************)
(* Vocabulary of the properties of create_case                             *)
(***************************************************************************)
\* the call in hand has completed and created a case
Created == call.pc = "done" /\ call.path = "new"

\* the call in hand has completed with a case, new or stored before
Answered == call.pc = "done" /\ call.response.status_code = 201

\* the row of the created case as the table holds it
StoredRow == CHOOSE row \in cases : row.id = call.record.id

Eligible == call.rule.rule_result = "ELIGIBLE_BY_RULE"

(***************************************************************************)
(* C12: audit-flag law: the audit_flag of the decision record of every     *)
(* created case equals (classifier unavailable) or (risk_score >= 0.7) or  *)
(* (rule_result is not ELIGIBLE_BY_RULE) or (fairness guard triggered).    *)
(***************************************************************************)
C12_AuditFlagLaw ==
    Created =>
        (call.record.audit_flag
            <=> \/ ~call.ml_available
                \/ call.ai_result.risk_score >= 700
                \/ ~Eligible
                \/ FairnessGuard(call.req.profile, call.ai_result.prob))

(***************************************************************************)
(* C13: status law: every created case has status IN_REVIEW when its       *)
(* rule_result is not ELIGIBLE_BY_RULE or its audit_flag is true, and NEW  *)
(* otherwise; none is created with audit_flag true and status NEW, and     *)
(* none is created APPROVED or REJECTED.                                   *)
(***************************************************************************)
C13_StatusLaw ==
    Created =>
        /\ call.record.status =
              (IF ~Eligible \/ call.record.audit_flag THEN "IN_REVIEW" ELSE "NEW")
        /\ ~(call.record.audit_flag /\ call.record.status = "NEW")
        /\ call.record.status \notin {"APPROVED", "REJECTED"}

(***************************************************************************)
(* C14: when the classifier is missing or throws during create_case, the   *)
(* risk outcome is the unavailable fallback (probability 0, risk_score 1)  *)
(* and the record of the created case has audit_flag true both as stored   *)
(* and as returned, whatever the rule_result and the arm.                  *)
(***************************************************************************)
ClassifierFailed == call.req.clf.kind = "raise"

C14_ClassifierFallback ==
    (Created /\ ClassifierFailed) =>
        /\ ~call.ml_available
        /\ call.ai_result.prob = 0
        /\ call.ai_result.risk_score = 1000
        /\ StoredRow.audit_flag
        /\ call.response.body.audit_flag

(***************************************************************************)
(* C16: for every create_case call whose case is in the CONTROL arm, on    *)
(* every path, the returned view has no review_confidence, does not show   *)
(* audit_flag as true, has a false decision-support-shown indicator, and   *)
(* no field of it, flag_reason included, carries the risk score.           *)
(***************************************************************************)
CarriesRisk(o) == o.some /\ Contains(o.text, "ml_risk=")

C16_ControlViewHidesRisk ==
    (Answered /\ call.response.body.arm = "CONTROL") =>
        /\ call.response.body.review_confidence = None
        /\ ~call.response.body.audit_flag
        /\ ~Truthy(call.response.body.ai_shown)
        /\ ~CarriesRisk(call.response.body.flag_reason)

(***************************************************************************)
(* C17: blinding filters only the outward view: after create_case for a    *)
(* CONTROL case the stored row still holds the review_confidence,          *)
(* audit_flag and flag_reason the adjudication computed.                   *)
(***************************************************************************)
C17_BlindingKeepsStorage ==
    (Created /\ call.record.arm = "CONTROL") =>
        /\ StoredRow.review_confidence = call.record.review_confidence
        /\ StoredRow.audit_flag = call.record.audit_flag
        /\ StoredRow.flag_reason = call.record.flag_reason

(***************************************************************************)
(* C18: for a TREATMENT case the blinding step changes nothing: the        *)
(* returned view carries the non-null review_confidence, the audit_flag    *)
(* and the flag_reason exactly as the adjudication computed them, with the *)
(* decision-support-shown indicator true; redacting a redacted view again  *)
(* leaves it unchanged.                                                    *)
(***************************************************************************)
C18_TreatmentUnchanged ==
    (Created /\ call.record.arm = "TREATMENT") =>
        /\ call.response.body.review_confidence = call.record.review_confidence
        /\ call.response.body.review_confidence # None
        /\ call.response.body.audit_flag = call.record.audit_flag
        /\ call.response.body.flag_reason = call.record.flag_reason
        /\ call.response.body.ai_shown = B(TRUE)
        /\ Redact(Redact(call.response.body)) = Redact(call.response.body)

(***************************************************************************)
(* C20: arm assignment is deterministic and replayable: after any sequence *)
(* of create_case calls, any two calls made with the same citizen_hash and *)
(* scheme_code were assigned the same arm and the same assignment_reason,  *)
(* and every response with a case reports the arm its call was assigned.   *)
(***************************************************************************)
SamePair(x, y) == x.citizen_hash = y.citizen_hash /\ x.scheme_code = y.scheme_code

C20_ArmReplayable ==
    /\ \A x \in calls, y \in calls : SamePair(x, y) => x.assigned = y.assigned
    /\ \A x \in calls : x.shown.name # "" => x.shown = x.assigned

\* a pair submitted twice, the second time with other cases in the table
C20_Witness ==
    /\ call.pc = "done"
    /\ call.path = "repeat"
    /\ \E x \in calls, y \in calls :
         /\ x.n # y.n
         /\ SamePair(x, y)
         /\ x.assigned.name = "CONTROL"
         /\ x.shown = y.shown

(***************************************************************************)
(* C19: blinding is applied identically at every external boundary: for    *)
(* every stored CONTROL case and every request parameter value, the API    *)
(* read, the dashboard listing, the CSV export and the JSON export all     *)
(* hide review_confidence, risk_score, risk_band, top_reasons, audit_flag  *)
(* and the decision-support-shown indicator.                               *)
(***************************************************************************)
\* a field is hidden when the boundary has no such field or emits an absent,
\* empty or false value for it
Hidden(v) == v \in {Omitted, None, S(""), S("[]"), DASH, B(FALSE)}

C19_BoundariesHideControl ==
    (view.id # 0 /\ view.arm = "CONTROL") =>
        /\ Hidden(view.shown.review_confidence)
        /\ Hidden(view.shown.risk_score)
        /\ Hidden(view.shown.risk_band)
        /\ Hidden(view.shown.top_reasons)
        /\ Hidden(view.shown.audit_flag)
        /\ Hidden(view.shown.decision_support_shown)

(***************************************************************************)
(* C15: the classifier artifact is loaded at most once per process: for    *)
(* any interleaving of concurrent first calls to a model getter the load   *)
(* is executed once, every caller receives the same object, and no caller  *)
(* receives a handle whose parts come from different loads.                *)
(***************************************************************************)
\* the requests whose getter has returned
Served(op) == {t \in Threads : threads[t].op = op /\ threads[t].pc \in {"have", "done"}
                                /\ threads[t].got # <<0, 0>>}

C15_LoadedOnce ==
    /\ handles.loads.lru <= 1
    /\ handles.loads.elig <= 1
    /\ handles.loads.intent <= 1
    /\ \A op \in Ops : \A t \in Served(op), u \in Served(op) :
           threads[t].got = threads[u].got
    /\ \A t \in Served("ai_utils.classify_intent") :
           threads[t].got[1] = threads[t].got[2]

(***************************************************************************)
(* C21: the arm reported by create_case is TREATMENT exactly when the      *)
(* numeric value of the SHA-256 digest of "citizen_hash|scheme_code|v1" is *)
(* even, and CONTROL otherwise.                                            *)
(***************************************************************************)
\* the last hexadecimal digit of hashlib.sha256(key).hexdigest()
Sha256LastDigit ==
    [key \in {h \o "|" \o s \o "|v1" : h \in CitizenHashes, s \in CaseSchemes} |->
        CASE key = "a|PMAY|v1" -> 5
          [] key = "a|UJJ|v1" -> 7
          [] key = "a|BAD|v1" -> 9
          [] key = "GamerUser1|PMAY|v1" -> 12
          [] key = "GamerUser1|UJJ|v1" -> 5
          [] key = "GamerUser1|BAD|v1" -> 14]

_assign_arm(citizen_hash, code) ==
    LET key == citizen_hash \o "|" \o code \o "|v1"
    IN  IF Sha256LastDigit[key] % 2 = 0 THEN "TREATMENT" ELSE "CONTROL"

C21_ArmIsDigestParity ==
    Answered =>
        call.response.body.arm = _assign_arm(call.req.citizen_hash, call.req.scheme_code)

(***************************************************************************)
(* C22: case creation is idempotent per (citizen_hash, scheme_code): after *)
(* any sequence of create_case calls there is at most one stored case for  *)
(* each pair, and a repeat submission of a stored pair returns the stored  *)
(* case with its stored review_confidence and status.                      *)
(***************************************************************************)
\* the call in hand submitted a pair for which an earlier call got a case
Resubmitted ==
    /\ Answered
    /\ \E x \in calls : x.n < call.n /\ SamePair(x, call.req) /\ x.shown.name # ""

\* the case stored first for the pair of the call in hand
FirstStored ==
    CHOOSE row \in Existing(call.req) : \A other \in Existing(call.req) : row.id <= other.id

C22_IdempotentPerPair ==
    /\ \A x \in cases, y \in cases : SamePair(x, y) => x.id = y.id
    /\ Resubmitted =>
         /\ call.response.body.id = FirstStored.id
         /\ call.response.body.review_confidence = FirstStored.review_confidence
         /\ call.response.body.status = FirstStored.status

(***************************************************************************)
(* C23: create_case with a scheme code that is not in the registry is      *)
(* rejected with HTTP 400, stores no case and records no FAILURE_LOG       *)
(* event.                                                                  *)
(***************************************************************************)
\* the step is a create_case call with a scheme code outside the registry
RejectedCall == call'.n = call.n + 1 /\ ~Known(S(call'.req.scheme_code))

Adjudicated == call.pc \in {"inserted", "done"} /\ call.path = "new"

PiecesAt(text, piece) == {i \in 1..Len(text) : text[i] = piece}

C24_FlagReasonOrder ==
    Adjudicated =>
        LET t    == call.record.flag_reason.text
            r    == call.rule.flag_reason
            near == check_near_miss(call.req.profile, S(call.req.scheme_code))
            n    == Len(t)
        IN  /\ call.record.flag_reason.some
            /\ n >= 2
            /\ t[n - 1] = "ml_risk="
            /\ t[n] = FloatStr(call.ai_result.risk_score)
            /\ PiecesAt(t, "ml_risk=") = {n - 1}
            /\ n >= Len(r) + 2
            /\ SubSeq(t, 1, Len(r)) = r
            /\ IF near.is_near_miss
               THEN \E i \in (Len(r) + 1)..(n - 2) :
                        /\ PiecesAt(t, "Near Miss: ") = {i}
                        /\ t[i + 1] = near.distance
                        /\ near.counterfactual # "" =>
                               t[i + 2] = " | " /\ t[i + 3] = near.counterfactual
               ELSE PiecesAt(t, "Near Miss: ") = {}

C24_Witness ==
    /\ call.pc = "done"
    /\ call.path = "new"
    /\ call.is_near_miss
    /\ call.rule.flag_reason # <<>>
    /\ Len(call.record.flag_reason.text) > Len(call.rule.flag_reason) + 2


(***************************************************************************)
(* C25.  The alternatives of every create_case answer are the rule         *)
(* engine's alternatives followed by the near-miss alternatives not yet    *)
(* present: no alternative occurs twice, the rule alternatives come first  *)
(* in their order, the near-miss alternatives keep their order, every      *)
(* alternative of either source is present and nothing else is; a rural    *)
(* male UJJ applicant is offered "PMAY".                                   *)
(***************************************************************************)
NearAlternatives ==
    check_near_miss(call.req.profile, S(call.req.scheme_code)).alternatives

RuralMaleUjj ==
    /\ call.req.scheme_code = "UJJ"
    /\ call.req.profile.gender = S("M")
    /\ call.req.profile.rural = I(1)

C25_AlternativesMerged ==
    Answered =>
        LET alts == call.response.body.alternatives
            rule == call.rule.alternatives
            near == NearAlternatives
        IN  /\ \A i, j \in 1..Len(alts) : alts[i] = alts[j] => i = j
            /\ Len(alts) >= Len(rule)
            /\ SubSeq(alts, 1, Len(rule)) = rule
            /\ \A i \in 1..Len(near) : SeqMember(near[i], alts)
            /\ \A i \in 1..Len(alts) : SeqMember(alts[i], rule) \/ SeqMember(alts[i], near)
            /\ \A i, j \in (Len(rule) + 1)..Len(alts) :
                   i < j => \E k, l \in 1..Len(near) :
                                k < l /\ near[k] = alts[i] /\ near[l] = alts[j]
            /\ RuralMaleUjj => SeqMember("PMAY", alts)

C25_Witness ==
    /\ Answered
    /\ RuralMaleUjj
    /\ call.rule.alternatives # <<>>
    /\ Len(call.response.body.alternatives) = Len(call.rule.alternatives) + 2


(***************************************************************************)
(* C26.  The checklist of every create_case answer is the value of         *)
(* get_document_checklist for the request's scheme code and profile,       *)
(* whatever the arm; its first element is the identity document; for UJJ   *)
(* it holds the caste certificate exactly when caste_marginalized = 1 and  *)
(* the Gram Panchayat certificate exactly when rural = 1.                  *)
(***************************************************************************)
C26_ChecklistLaw ==
    Answered =>
        LET docs == call.response.body.documents
            prof == call.req.profile
        IN  /\ docs = get_document_checklist(call.req.scheme_code, prof).docs
            /\ Len(docs) >= 1
            /\ docs[1] = "Aadhaar Card (Identity Proof)"
            /\ call.req.scheme_code = "UJJ" =>
                   /\ SeqMember("Caste Certificate (SC/ST)", docs)
                          <=> prof.caste_marginalized = I(1)
                   /\ SeqMember("Gram Panchayat Certificate", docs)
                          <=> prof.rural = I(1)

C26_Witness ==
    /\ Answered
    /\ call.response.body.arm = "CONTROL"
    /\ \E x \in calls : x.n < call.n /\ x.shown.name = "TREATMENT"
    /\ call.req.scheme_code = "UJJ"
    /\ call.req.profile.rural = I(1)
    /\ SeqMember("Gram Panchayat Certificate", call.response.body.documents)
    /\ ~SeqMember("Caste Certificate (SC/ST)", call.response.body.documents)


(***************************************************************************)
(* C27.  Every failure create_case recovers from is recorded.  A call in   *)
(* which the ML stage or the rule stage raises appends exactly one         *)
(* FAILURE_LOG event per failing stage, in the order of the stages, and a  *)
(* call in which neither raises appends none.                              *)
(***************************************************************************)
MlStageRaises(req) ==
    predict_eligibility(req.profile, req.clf).kind = "raise" \/ req.intent_raises

RuleStageRaises(req) ==
    assistive_decision(S(req.scheme_code), req.profile).kind = "raise"

StageFailures(req) ==
    (IF MlStageRaises(req)
     THEN <<FailureLog("ml_predict", "ML_FALLBACK")>> ELSE <<>>)
    \o (IF RuleStageRaises(req)
        THEN <<FailureLog("rules_engine", "RULE_ENGINE_FALLBACK")>> ELSE <<>>)

\* the call completes with a case and reports a failure event it recorded
RecoveredWithCase ==
    /\ call'.response.status_code = 201
    /\ \E c \in cases' : c.id = call'.response.body.id
    /\ call'.response.body.failure_log_id \in (Len(events) + 1)..Len(events')
    /\ events'[call'.response.body.failure_log_id].action = "FAILURE_LOG"

DeskRuleResult(payload) ==
    RuleResultOf(CHOOSE c \in cases : c.id = payload.id, payload)

DispositionMade == desk'.n = desk.n + 1 /\ desk'.name = "dashboard_disposition"

OutsideMap(payload) ==
    /\ \E c \in cases : c.id = payload.id
    /\ payload.final_action \notin ALLOWED_ACTIONS_BY_RULE[DeskRuleResult(payload)]

C28_DispositionsRespectMap ==
    [][DispositionMade =>
          /\ desk'.status_code = 200 =>
                 desk'.req.final_action
                     \in ALLOWED_ACTIONS_BY_RULE[DeskRuleResult(desk'.req)]
          /\ OutsideMap(desk'.req) => desk'.status_code # 200 /\ cases' = cases
          /\ \A c \in cases :
                 (c.id = desk'.req.id
                    /\ RuleResultOf(c, desk'.req)
                           \in {"INELIGIBLE_BY_RULE", "UNKNOWN_NEEDS_DOCS"}) =>
                     \A d \in cases' :
                         d.id = c.id =>
                            /\ d.final_action # S("APPROVE")
                            /\ d.status = "APPROVED" => c.status = "APPROVED"]_vars


(***************************************************************************)
(* C29.  update_status changes a case's status only when the X-Mock-OTP    *)
(* header equals the mock OTP, the case exists and the requested status    *)
(* is NEW, IN_REVIEW, APPROVED or REJECTED: such a call answers 200, sets  *)
(* the status of that case alone and records exactly one UPDATE_STATUS     *)
(* event for it.  Every other call fails with 401, 404 or 400, changes no  *)
(* stored case and records no event.                                       *)
(***************************************************************************)
StatusUpdateMade == desk'.n = desk.n + 1 /\ desk'.name = "update_status"

Authorised(req) ==
    /\ req.x_mock_otp = "123456"
    /\ \E c \in cases : c.id = req.case_id
    /\ req.status \in {"NEW", "IN_REVIEW", "APPROVED", "REJECTED"}

Canonical == S(Upper(scheme_code.s))

C30_ComponentsAgreeOnScheme ==
    (NearDone /\ Known(scheme_code)) =>
        /\ rule_out = assistive_decision(Canonical, profile)
        /\ near_engine = engine_check_near_miss(profile, Canonical)
        /\ near_res = check_near_miss(profile, Canonical)
        /\ get_document_checklist(scheme_code.s, profile)
               = get_document_checklist(Canonical.s, profile)

====
